---- MODULE Spec2Model ----
(***************************************************************************)
(* Wave Director, Encounter Generator, Enemy Unit and Combat Resolver of   *)
(* the arcade shooter, as a state machine.                                 *)
(*                                                                         *)
(* Time is counted in ticks of half a second (TicksPerSecond == 2), so     *)
(* every timer threshold of the source (1.0, 2.5, 3.0, 5.0, 8.0 s) is an   *)
(* integer.  Multipliers are fixed point with HealthScale == 10000 for 1.0.*)
(* Player shield energy is counted in half points (EnergyScale == 2).      *)
(* Geometry (rectangle overlap, distance, leaving the playfield) is an     *)
(* input of the action that tests it.  Scoring, power-ups and the damage   *)
(* boost are outside the model: a player projectile deals BULLET_DAMAGE.   *)
(***************************************************************************)
EXTENDS Integers, Sequences, FiniteSets, TLC

\* ---------------------------------------------------------------- bounds
\* largest frame time dt, in ticks
MaxDt == 2
\* the Director spawns only while the alive-set holds fewer entries than this
MaxAlive == 1
\* units one call of the spawner returns
MaxGroup == 2
\* special-event bursts of a wave that are counted
MaxBursts == 2
\* player projectiles tested in one collision pass
MaxBullets == 2
\* waves started after the first one of a run
MaxNewWaves == 1
\* units the Director spawns in the waves started after the first one
MaxNewSpawns == 1
\* units that leave the playfield in one update, overlap the player in one
\* pass, or have a projectile reach the player in one pass
MaxAtOnce == 1
\* units a wave observed from its end still has to spawn
LateRemaining == 1
\* enemy projectiles in flight per unit that are followed
MaxEnemyBullets == 0
\* last wave of a sequence of drawn waves
MaxWave == 12
\* largest damage of one hit on a unit taken alone
MaxDamage == 10
\* a long frame, followed while no wave is active
LongDt == 6
\* scored events (kills and power-ups) of a game whose score is followed
MaxKills == 3
\* projectiles of a shooting unit in flight when the player's shield is followed
MaxInFlight == 1
\* units around the player when game-over is followed
MaxFoes == 2
\* spawner units of a wave whose minions are followed
MaxSpawners == 2
\* power-ups on the screen at a time
MaxPowerups == 1
\* update calls on a unit within one frame that are counted
MaxUpdates == 3

\* ------------------------------------------------------- program constants
TicksPerSecond == 2
HealthScale == 10000
EnergyScale == 2
WAVE_BREAK_DURATION == 6
WAVE_BOSS_FREQUENCY == 5
WAVE_PREROLL == 2
WAVE_START_DISPLAY == 5
EVENT_DELAY == 2
MINION_WARMUP == 6
MINION_CAP == 4
DEFAULT_SHIELD_TIMER == 10
MAX_SHIELD_ENERGY == 200
PLAYER_MAX_HEALTH == 100
INVULNERABILITY == 2
SHIELD_DRAIN_RATE == 25
BODY_DAMAGE == 34
SHIELD_BODY_COST == 25
ENEMY_BULLET_FACTOR == 15
ENEMY_BULLET_SHIELD_FACTOR == 10
CONTACT_DRAIN == 30
DEATH_RESTORE == 20
PROXIMITY_DRAIN == 5
BULLET_DAMAGE == 1
BERSERKER_ACCELERATION == 150
BOSS_Y == -80
ESCORT_RADIUS_X == 120
ESCORT_RADIUS_Y == 60
COMBO_DECAY_TIME == 4
COMBO_DISPLAY_DURATION == 3
COMBO_BONUS_MULTIPLIER == 1
SCORE_MULTIPLIER_MAX == 100
MultiplierScale == 10
POWERUP_BONUS == 50
POWERUP_LIFETIME == 16
WEAPON_RAPID_FIRE_DURATION == 10
SHIELD_BOOST_ENERGY == 100
SHIELD_RECHARGE_RATE == 15

Min(a, b) == IF a < b THEN a ELSE b
Max(a, b) == IF a > b THEN a ELSE b

NoEvent == "none"
NoWave == [wave_number |-> 0]

\* ------------------------------------------------------------ Enemy Unit
EnemyTypes ==
  {"basic", "fast", "heavy", "hunter", "sniper", "shielded", "berserker",
   "phantom", "splitter", "spawner", "energy_vampire", "mini_boss",
   "destroyer", "void_lord"}

\* enemy_configs: health, size, score and the capability flags of each type;
\* shoot_cooldown and shield_timer in ticks.
Cfg(h, sz, sc, shoot, cd, sh, st, split, minions, drain) ==
  [health |-> h, size |-> sz, score |-> sc, can_shoot |-> shoot,
   shoot_cooldown |-> cd, shield_active |-> sh, shield_timer |-> st,
   split_on_death |-> split, spawn_minions |-> minions, energy_drain |-> drain]

enemy_configs ==
  [t \in EnemyTypes |->
     CASE t = "basic"          -> Cfg(1, 15, 10, FALSE, 4, FALSE, DEFAULT_SHIELD_TIMER, FALSE, FALSE, FALSE)
       [] t = "fast"           -> Cfg(1, 12, 20, FALSE, 4, FALSE, DEFAULT_SHIELD_TIMER, FALSE, FALSE, FALSE)
       [] t = "heavy"          -> Cfg(4, 22, 40, FALSE, 4, FALSE, DEFAULT_SHIELD_TIMER, FALSE, FALSE, FALSE)
       [] t = "hunter"         -> Cfg(2, 16, 60, FALSE, 4, FALSE, DEFAULT_SHIELD_TIMER, FALSE, FALSE, FALSE)
       [] t = "sniper"         -> Cfg(2, 14, 80, TRUE, 5, FALSE, DEFAULT_SHIELD_TIMER, FALSE, FALSE, FALSE)
       [] t = "shielded"       -> Cfg(3, 18, 70, FALSE, 4, TRUE, 16, FALSE, FALSE, FALSE)
       [] t = "berserker"      -> Cfg(2, 20, 90, FALSE, 4, FALSE, DEFAULT_SHIELD_TIMER, FALSE, FALSE, FALSE)
       [] t = "phantom"        -> Cfg(3, 17, 120, FALSE, 4, FALSE, DEFAULT_SHIELD_TIMER, FALSE, FALSE, FALSE)
       [] t = "splitter"       -> Cfg(2, 19, 100, FALSE, 4, FALSE, DEFAULT_SHIELD_TIMER, TRUE, FALSE, FALSE)
       [] t = "spawner"        -> Cfg(5, 25, 150, FALSE, 4, FALSE, DEFAULT_SHIELD_TIMER, FALSE, TRUE, FALSE)
       [] t = "energy_vampire" -> Cfg(2, 16, 110, FALSE, 4, FALSE, DEFAULT_SHIELD_TIMER, FALSE, FALSE, TRUE)
       [] t = "mini_boss"      -> Cfg(8, 35, 300, TRUE, 3, TRUE, DEFAULT_SHIELD_TIMER, FALSE, FALSE, FALSE)
       [] t = "destroyer"      -> Cfg(15, 45, 500, TRUE, 2, FALSE, DEFAULT_SHIELD_TIMER, FALSE, TRUE, FALSE)
       [] t = "void_lord"      -> Cfg(12, 40, 450, TRUE, 4, FALSE, DEFAULT_SHIELD_TIMER, FALSE, FALSE, TRUE)]

\* the "speed" entry of enemy_configs
enemy_speeds ==
  [t \in EnemyTypes |->
     CASE t = "basic" -> 80 [] t = "fast" -> 200 [] t = "heavy" -> 50
       [] t = "hunter" -> 120 [] t = "sniper" -> 40 [] t = "shielded" -> 70
       [] t = "berserker" -> 60 [] t = "phantom" -> 100 [] t = "splitter" -> 90
       [] t = "spawner" -> 30 [] t = "energy_vampire" -> 110
       [] t = "mini_boss" -> 80 [] t = "destroyer" -> 50 [] t = "void_lord" -> 70]

\* the "acceleration" entry of enemy_configs, 0 where the type has none
enemy_accelerations ==
  [t \in EnemyTypes |-> IF t = "berserker" THEN BERSERKER_ACCELERATION ELSE 0]

\* the types whose configuration sets "ai_targeting"
AiTargetingTypes == {"hunter"}

\* Enemy.__init__ with _initialize_enemy_type: a fresh unit of type t.
\* reported counts the take_damage calls that returned True (history);
\* updates counts the Enemy.update calls of the current frame made on the
\* unit while it was active (history).
Enemy(t) ==
  LET c == enemy_configs[t] IN
  [enemy_type |-> t, active |-> TRUE, health |-> c.health,
   max_health |-> c.health, size |-> c.size, score_value |-> c.score,
   creation_time |-> 0, shield_active |-> c.shield_active,
   shield_timer |-> c.shield_timer, can_shoot |-> c.can_shoot,
   shoot_timer |-> 0, shoot_cooldown |-> c.shoot_cooldown, bullets |-> 0,
   split_on_death |-> c.split_on_death, spawn_minions |-> c.spawn_minions,
   energy_drain |-> c.energy_drain, is_boss |-> FALSE, is_minion |-> FALSE,
   ai_state |-> "moving", ai_targeting |-> (t \in AiTargetingTypes),
   speed |-> enemy_speeds[t], acceleration |-> enemy_accelerations[t],
   reported |-> 0, updates |-> 0]

\* a hit that goes through the shield
TakeDamageUnitShieldIgnored(u, damage) ==
  [u EXCEPT !.health = @ - damage,
            !.active = IF u.health - damage <= 0 THEN FALSE ELSE @,
            !.reported = IF u.health - damage <= 0 THEN Min(@ + 1, 2) ELSE @]

\* Enemy.take_damage: the unit after the call.
TakeDamageUnit(u, damage) ==
  IF u.shield_active /\ u.shield_timer > 0
    THEN [u EXCEPT !.shield_timer = @ - damage,
                   !.shield_active = (u.shield_timer - damage > 0)]
    ELSE [u EXCEPT !.health = @ - damage,
                   !.active = IF u.health - damage <= 0 THEN FALSE ELSE @,
                   !.reported = IF u.health - damage <= 0 THEN Min(@ + 1, 2) ELSE @]

\* Enemy.take_damage: the value the call returns.
TakeDamageResult(u, damage) ==
  IF u.shield_active /\ u.shield_timer > 0
    THEN FALSE
    ELSE u.health - damage <= 0

\* Enemy.get_split_enemies: the children of unit u.
GetSplitEnemies(u) ==
  IF ~u.split_on_death
    THEN << >>
    ELSE [i \in 1..2 |->
            [Enemy("fast") EXCEPT !.size = u.size \div 2, !.health = 1,
                                  !.score_value = u.score_value \div 3]]

\* Enemy._update_ai_behavior.  near: the unit is closer than 200 to the
\* player position.  The target a hunter or a charging unit steers to is
\* geometry and not followed.
UpdateAiBehavior(u, ppos, near) ==
  IF ~ppos \/ ~u.ai_targeting
    THEN u
    ELSE IF u.enemy_type = "berserker" /\ near /\ u.ai_state = "moving"
           THEN [u EXCEPT !.ai_state = "charging", !.speed = @ + u.acceleration]
           ELSE u

\* Enemy.update: one behaviour update of unit u by dt.  oob: the move takes
\* the unit out of the playfield; ppos: the player position is known;
\* gone: the unit's projectiles in flight leave the screen; near: the unit
\* is closer than 200 to the player position.
\* A timer is only carried for the units that read it: creation_time for the
\* units that spawn minions (and only up to the warm-up it is compared with),
\* shield_timer while the shield is up, shoot_timer for the units that shoot.
EnemyUpdate(u, dt, oob, ppos, gone, near) ==
  IF ~u.active
    THEN u
    ELSE
      LET ai == UpdateAiBehavior(u, ppos, near)
          st == IF u.shield_timer > 0 THEN u.shield_timer - dt ELSE u.shield_timer
          sa == IF u.shield_timer > 0 /\ st <= 0 THEN FALSE ELSE u.shield_active
          sh == IF u.shoot_timer > 0 THEN u.shoot_timer - dt ELSE u.shoot_timer
          fire == u.can_shoot /\ sh <= 0 /\ ppos
          bl == IF gone THEN 0 ELSE u.bullets
      IN [ai EXCEPT !.creation_time =
                      IF u.spawn_minions THEN Min(@ + dt, MINION_WARMUP + 1) ELSE @,
                   !.shield_timer = IF u.shield_active THEN st ELSE @,
                   !.shield_active = sa,
                   !.shoot_timer = IF fire THEN u.shoot_cooldown
                                   ELSE IF u.can_shoot THEN sh ELSE @,
                   !.bullets = IF fire THEN Min(bl + 1, MaxEnemyBullets) ELSE bl,
                   !.active = ~oob]

\* ---------------------------------------------------- Encounter Generator
\* the unit types and special events the random choices are drawn from
ModelTypes == {"basic", "splitter", "energy_vampire"}
ModelEvents == {"elite_squad", "boss_rush"}
\* the types the members of an elite group or an elite squad are drawn from
ModelGroupTypes == {"energy_vampire"}

\* EnemySpawner.enemy_types: unlock wave and tier of each type
enemy_types ==
  [t \in EnemyTypes |->
     CASE t = "basic"          -> [unlock_wave |-> 1, tier |-> "basic"]
       [] t = "fast"           -> [unlock_wave |-> 1, tier |-> "basic"]
       [] t = "heavy"          -> [unlock_wave |-> 2, tier |-> "basic"]
       [] t = "hunter"         -> [unlock_wave |-> 3, tier |-> "advanced"]
       [] t = "sniper"         -> [unlock_wave |-> 4, tier |-> "advanced"]
       [] t = "shielded"       -> [unlock_wave |-> 4, tier |-> "advanced"]
       [] t = "berserker"      -> [unlock_wave |-> 5, tier |-> "advanced"]
       [] t = "phantom"        -> [unlock_wave |-> 6, tier |-> "elite"]
       [] t = "splitter"       -> [unlock_wave |-> 7, tier |-> "elite"]
       [] t = "spawner"        -> [unlock_wave |-> 8, tier |-> "elite"]
       [] t = "energy_vampire" -> [unlock_wave |-> 8, tier |-> "elite"]
       [] t = "mini_boss"      -> [unlock_wave |-> 5, tier |-> "boss"]
       [] t = "destroyer"      -> [unlock_wave |-> 10, tier |-> "boss"]
       [] t = "void_lord"      -> [unlock_wave |-> 12, tier |-> "boss"]]

formation_patterns ==
  {"single", "line", "v_formation", "circle", "diamond", "wave", "spiral"}

\* EnemySpawner._get_available_enemy_types; tier "any" stands for None
GetAvailableEnemyTypes(wave_number, tier) ==
  {t \in EnemyTypes : /\ enemy_types[t].unlock_wave <= wave_number
                      /\ (tier = "any" \/ enemy_types[t].tier = tier)}

\* EnemySpawner._select_enemy_type: every available type has a positive
\* weight, so each can be drawn; "basic" when none is available.
\* pool: the types the random choice is taken from
SelectEnemyTypeFrom(wave_number, prefer_tier, pool) ==
  IF GetAvailableEnemyTypes(wave_number, prefer_tier) = {}
    THEN {"basic"}
    ELSE GetAvailableEnemyTypes(wave_number, prefer_tier) \cap pool

\* EnemySpawner._create_enemy: health = int(health * health_multiplier)
CreateEnemy(t, health_multiplier) ==
  LET h == (enemy_configs[t].health * health_multiplier) \div HealthScale
  IN [Enemy(t) EXCEPT !.health = h, !.max_health = h]

\* all sequences of length n over S
SeqsOf(S, n) == [1..n -> S]

\* EnemySpawner._spawn_regular_enemy, the type drawn from pool
SpawnRegularEnemyFrom(health_multiplier, wave_number, pool) ==
  {<<CreateEnemy(t, health_multiplier)>> :
     t \in SelectEnemyTypeFrom(wave_number, "any", pool)}

\* EnemySpawner._spawn_regular_enemy with the types the model follows
SpawnRegularEnemy(health_multiplier, wave_number) ==
  SpawnRegularEnemyFrom(health_multiplier, wave_number, ModelTypes)

\* units a formation pattern places for a drawn formation_size
FormationCount(formation, formation_size) ==
  CASE formation = "single"  -> 1
    [] formation = "diamond" -> Min(formation_size, 4)
    [] OTHER                 -> formation_size

\* EnemySpawner._spawn_formation, the type drawn from pool
SpawnFormationFrom(health_multiplier, wave_number, pool) ==
  {[i \in 1..FormationCount(f, n) |-> CreateEnemy(t, health_multiplier)] :
     f \in formation_patterns, n \in 3..6,
     t \in SelectEnemyTypeFrom(wave_number, "basic", pool)}

\* EnemySpawner._spawn_formation with the types the model follows
SpawnFormation(health_multiplier, wave_number) ==
  SpawnFormationFrom(health_multiplier, wave_number, ModelTypes)

\* EnemySpawner._spawn_elite_group, the type of a regular unit drawn from
\* pool and the types of the members of a group from group_pool
SpawnEliteGroupFrom(health_multiplier, wave_number, pool, group_pool) ==
  IF GetAvailableEnemyTypes(wave_number, "elite") = {}
    THEN SpawnRegularEnemyFrom(health_multiplier, wave_number, pool)
    ELSE UNION {
           {[i \in 1..n |-> CreateEnemy(ts[i], health_multiplier)] :
              ts \in SeqsOf(GetAvailableEnemyTypes(wave_number, "elite") \cap group_pool, n)} :
           n \in 1..3}

\* EnemySpawner._spawn_elite_group with the types the model follows
SpawnEliteGroup(health_multiplier, wave_number) ==
  SpawnEliteGroupFrom(health_multiplier, wave_number, ModelTypes, ModelGroupTypes)

\* the boss unit of EnemySpawner._spawn_boss_wave
BossUnit(boss_type, health_multiplier) ==
  LET c == enemy_configs[boss_type]
      h == (c.health * health_multiplier * 3) \div (2 * HealthScale)
  IN [Enemy(boss_type) EXCEPT !.health = h, !.max_health = h,
                              !.score_value = c.score * 2, !.is_boss = TRUE]

\* escort counts drawn from 1 on
EscortCountsFromOne(boss_type, wave_number) ==
  IF boss_type \in {"destroyer", "void_lord"} /\ wave_number >= 8
    THEN 1..4
    ELSE {0}

\* the escort counts _spawn_boss_wave can draw for a boss type
EscortCounts(boss_type, wave_number) ==
  IF boss_type \in {"destroyer", "void_lord"} /\ wave_number >= 8
    THEN 2..4
    ELSE {0}

\* the place of the boss: x counted from the middle of the screen
BossPlace == [x |-> 0, y |-> BOSS_Y]

\* the place of escort i of escort_count (i from 0): the angle in degrees of
\* (i * 2 * pi) / escort_count on the ellipse with half-axes 120 and 60
\* around (cx, cy)
EscortPlace(i, escort_count, cx, cy) ==
  [cx |-> cx, cy |-> cy, rx |-> ESCORT_RADIUS_X, ry |-> ESCORT_RADIUS_Y,
   angle |-> (i * 360) \div escort_count]

\* EnemySpawner._spawn_boss_wave: the lists one call can return, each with
\* the places of its units; pool: the types the random choices are taken from
SpawnBossWavePlaced(health_multiplier, wave_number, pool) ==
  LET avail == GetAvailableEnemyTypes(wave_number, "boss")
      boss_types == IF avail = {} THEN {"mini_boss"} ELSE avail \cap pool
  IN UNION {
       UNION {
         {[enemies |-> <<BossUnit(bt, health_multiplier)>> \o
                       [i \in 1..n |-> CreateEnemy(ts[i], health_multiplier)],
           places |-> <<BossPlace>> \o
                      [i \in 1..n |-> EscortPlace(i - 1, n, BossPlace.x, BossPlace.y)]] :
            ts \in SeqsOf({"fast", "hunter"} \cap pool, n)} :
         n \in EscortCounts(bt, wave_number)} :
       bt \in boss_types}

\* EnemySpawner._spawn_boss_wave with the types the model follows
SpawnBossWave(health_multiplier, wave_number) ==
  {r.enemies : r \in SpawnBossWavePlaced(health_multiplier, wave_number, ModelTypes)}

\* EnemySpawner.spawn_wave_enemy: the lists one call can return
SpawnWaveEnemy(health_multiplier, is_boss, wave_number) ==
  IF is_boss
    THEN SpawnBossWave(health_multiplier, wave_number)
    ELSE (IF wave_number >= 6
            THEN SpawnFormation(health_multiplier, wave_number) ELSE {})
         \cup (IF wave_number >= 4
            THEN SpawnEliteGroup(health_multiplier, wave_number) ELSE {})
         \cup SpawnRegularEnemy(health_multiplier, wave_number)

\* EnemySpawner.spawn_special_event: the lists one call can return, the
\* types of an elite squad drawn from group_pool
SpawnSpecialEventFrom(event_type, wave_number, health_multiplier, group_pool) ==
  CASE event_type = "invasion" ->
         {[i \in 1..12 |-> CreateEnemy("basic", (health_multiplier * 7) \div 10)]}
    [] event_type = "elite_squad" ->
         IF GetAvailableEnemyTypes(wave_number, "elite") = {}
           THEN {<< >>}
           ELSE {[i \in 1..4 |-> CreateEnemy(ts[i], (health_multiplier * 12) \div 10)] :
                   ts \in SeqsOf(GetAvailableEnemyTypes(wave_number, "elite") \cap group_pool, 4)}
    [] event_type = "boss_rush" ->
         {[i \in 1..Min(3, wave_number \div 5) |-> CreateEnemy("mini_boss", health_multiplier)]}
    [] OTHER -> {<< >>}

\* EnemySpawner.spawn_special_event with the types the model follows
SpawnSpecialEvent(event_type, wave_number, health_multiplier) ==
  SpawnSpecialEventFrom(event_type, wave_number, health_multiplier, ModelGroupTypes)

\* ------------------------------------------------------------------ Wave
\* the outcomes of random.randint(-2, 3) the model draws
Variations == {-2, 0}

\* Wave._calculate_enemy_count
CalculateEnemyCount(wave_number, variation) ==
  LET base_count == IF wave_number <= 5 THEN 6 + wave_number * 2
                    ELSE IF wave_number <= 10 THEN 16 + (wave_number - 5) * 3
                    ELSE 31 + (wave_number - 10) * 2
  IN Max(5, base_count + variation)

\* Wave._calculate_spawn_rate, in hundredths of a spawn per second
CalculateSpawnRate(wave_number) ==
  IF wave_number <= 3 THEN 120
  ELSE IF wave_number <= 8 THEN 120 + (wave_number - 3) * 15
  ELSE 195 + (wave_number - 8) * 10

\* Wave._calculate_health_multiplier, HealthScale for 1.0
CalculateHealthMultiplier(wave_number) ==
  IF wave_number <= 3 THEN HealthScale
  ELSE IF wave_number <= 8 THEN HealthScale + (wave_number - 3) * 1500
  ELSE 17500 + (wave_number - 8) * 1000

\* the special events and the variations of the enemy count the code can draw
SpecialEvents == {"invasion", "elite_squad", "boss_rush"}
AllVariations == -2..3

\* an event roll that does not look at the boss flag
DetermineSpecialEventBossIgnored(wave_number, pool) ==
  IF wave_number < 4
    THEN {NoEvent}
    ELSE {NoEvent} \cup
         (({"invasion", "elite_squad"} \cup
           (IF wave_number >= 8 THEN {"boss_rush"} ELSE {})) \cap pool)

\* Wave._determine_special_event: the tags the random roll can give, the
\* random.choice taken from pool
DetermineSpecialEventFrom(wave_number, pool) ==
  IF wave_number % WAVE_BOSS_FREQUENCY = 0 \/ wave_number < 4
    THEN {NoEvent}
    ELSE {NoEvent} \cup
         (({"invasion", "elite_squad"} \cup
           (IF wave_number >= 8 THEN {"boss_rush"} ELSE {})) \cap pool)

\* Wave._determine_special_event with the events the model follows
DetermineSpecialEvent(wave_number) ==
  DetermineSpecialEventFrom(wave_number, ModelEvents)

\* Wave.__init__
Wave(wave_number, variation, event) ==
  [wave_number |-> wave_number,
   enemies_to_spawn |-> CalculateEnemyCount(wave_number, variation),
   enemies_spawned |-> 0,
   spawn_rate |-> CalculateSpawnRate(wave_number),
   enemy_health_multiplier |-> CalculateHealthMultiplier(wave_number),
   is_boss_wave |-> (wave_number % WAVE_BOSS_FREQUENCY = 0),
   is_special_event |-> event]

\* ------------------------------------------------------------- the state
VARIABLES
  wm,         \* the WaveManager object: its fields, the lists hold unit ids
  units,      \* the Enemy objects the lists refer to, by id
  player,     \* the Player fields the core reads and writes
  gm,         \* GameManager: dt and game_over
  pc,         \* position in the frame: "frame", "enemies", "collide"
  exception,  \* the exception that ended the process, or "none"
  obs,        \* what the last action emitted (notifications, spawns, deaths)
  hist        \* history: waves started, bursts spawned in the current wave,
              \* previews emitted in the current break

vars == <<wm, units, player, gm, pc, exception, obs, hist>>

NoObs ==
  [notes |-> << >>, spawned |-> 0, bursts |-> 0, completed |-> FALSE,
   started |-> FALSE, kills |-> 0, dead_hits |-> FALSE, dead_kills |-> FALSE,
   dead_harm |-> FALSE, split |-> << >>, body_deaths |-> {},
   game_overs |-> 0]

Range(f) == {f[i] : i \in DOMAIN f}

\* the subsets of S with at most MaxAtOnce elements
Some(S) == {T \in SUBSET S : Cardinality(T) <= MaxAtOnce}

\* list.remove(x): the list without the first occurrence of x
RECURSIVE RemoveFirst(_, _)
RemoveFirst(list, x) ==
  IF list = << >> THEN << >>
  ELSE IF Head(list) = x THEN Tail(list)
  ELSE <<Head(list)>> \o RemoveFirst(Tail(list), x)

\* the smallest id no live object uses
FreshId(us) ==
  CHOOSE i \in 1..(Cardinality(DOMAIN us) + 1) :
    i \notin DOMAIN us /\ \A j \in 1..(i - 1) : j \in DOMAIN us

\* the heap and the ids after allocating the units of the list new
RECURSIVE Allocate(_, _, _)
Allocate(us, ids, new) ==
  IF new = << >> THEN [units |-> us, ids |-> ids]
  ELSE LET i == FreshId(us)
       IN Allocate(us @@ (i :> Head(new)), Append(ids, i), Tail(new))

\* the distinct entries of a list in the order of their first occurrence
RECURSIVE Distinct(_, _)
Distinct(list, acc) ==
  IF list = << >> THEN acc
  ELSE Distinct(Tail(list),
                IF Head(list) \in Range(acc) THEN acc ELSE Append(acc, Head(list)))

\* the heap after an operation: objects no list refers to any more are
\* dropped, and the objects left are numbered in the order of the lists
Collect(w, us) ==
  LET d == Distinct(w.enemies_alive \o w.event_enemies, << >>)
      new(id) == CHOOSE k \in 1..Len(d) : d[k] = id
  IN [wm |-> [w EXCEPT
                !.enemies_alive = [k \in 1..Len(@) |-> new(@[k])],
                !.event_enemies = [k \in 1..Len(@) |-> new(@[k])]],
      units |-> [k \in 1..Len(d) |-> us[d[k]]]]

\* ---------------------------------------------------------- Wave Director
\* WaveManager.__init__
WaveManagerInit ==
  [current_wave_number |-> 1, current_wave |-> NoWave, wave_active |-> FALSE,
   wave_break_timer |-> 0, spawn_timer |-> 0, enemies_alive |-> << >>,
   special_event_timer |-> 0, event_enemies |-> << >>,
   split_enemies_pending |-> << >>, wave_start_timer |-> 0,
   wave_warning_shown |-> FALSE, has_player_pos |-> FALSE]

\* WaveManager.start_new_wave
StartNewWave(w, variation, event) ==
  [w EXCEPT !.current_wave = Wave(w.current_wave_number, variation, event),
            !.wave_active = TRUE,
            !.wave_break_timer = 0,
            !.spawn_timer = 0,
            !.wave_start_timer = WAVE_START_DISPLAY,
            !.wave_warning_shown = FALSE,
            !.event_enemies = << >>,
            !.split_enemies_pending = << >>]

\* WaveManager._show_wave_preview: the notification, or the exception raised
\* when there is no current wave
ShowWavePreview(w) ==
  IF w.current_wave = NoWave THEN "AttributeError"
  ELSE IF w.current_wave.is_boss_wave THEN "boss_incoming"
  ELSE IF w.current_wave.is_special_event # NoEvent THEN "event_incoming"
  ELSE IF GetAvailableEnemyTypes(w.current_wave_number, "elite") # {} THEN "elite_detected"
  ELSE IF GetAvailableEnemyTypes(w.current_wave_number, "advanced") # {} THEN "advanced_hostiles"
  ELSE "incoming"

\* WaveManager._complete_wave: the notifications
CompleteWaveNotes(w) ==
  LET n == w.current_wave_number + 1
  IN <<IF w.current_wave.is_boss_wave THEN "boss_defeated"
       ELSE IF w.current_wave.is_special_event # NoEvent THEN "event_completed"
       ELSE "wave_cleared">>
     \o (IF n = 5 THEN <<"elite_unlocked">>
         ELSE IF n = 10 THEN <<"destroyer_detected">>
         ELSE IF n % 10 = 0 THEN <<"milestone">>
         ELSE << >>)

\* a completion that forgets to leave the active state
CompleteWaveStaysActive(w) ==
  [w EXCEPT !.current_wave_number = @ + 1]

\* WaveManager._complete_wave: the fields
CompleteWave(w) ==
  [w EXCEPT !.wave_active = FALSE, !.current_wave_number = @ + 1]

\* a completion check that looks at the quota and the event set only
WaveCompleteAliveIgnored(w) ==
  /\ w.current_wave.enemies_spawned >= w.current_wave.enemies_to_spawn
  /\ Len(w.event_enemies) = 0

\* the wave completion check of WaveManager.update
WaveComplete(w) ==
  /\ w.current_wave.enemies_spawned >= w.current_wave.enemies_to_spawn
  /\ Len(w.enemies_alive) = 0
  /\ Len(w.event_enemies) = 0

\* the regular spawning branch of WaveManager.update is taken
RegularSpawningDue(w) ==
  /\ w.current_wave.enemies_spawned < w.current_wave.enemies_to_spawn
  /\ w.wave_start_timer <= 0

\* _handle_regular_spawning: the spawn interval 1 / spawn_rate has elapsed
SpawnIntervalElapsed(w, timer) ==
  timer * w.current_wave.spawn_rate >= 100 * TicksPerSecond

\* _handle_special_event: the burst is spawned in this tick
EventSpawnDue(w, timer) ==
  timer >= EVENT_DELAY /\ w.event_enemies = << >>

\* a break that ends with the pre-roll
BreakOverAtPreroll(timer) == timer >= WAVE_PREROLL

\* the break is over: WaveManager.update starts the next wave
BreakOver(timer) == timer >= WAVE_BREAK_DURATION

\* a warning test that does not look at wave_warning_shown
WarningDueShownIgnored(w, timer) == timer >= WAVE_PREROLL

\* the break pre-roll is over: the wave warning is due
WarningDue(w, timer) == timer >= WAVE_PREROLL /\ ~w.wave_warning_shown

\* the minion _handle_minion_spawning creates
Minion(health_multiplier) ==
  [CreateEnemy("fast", health_multiplier \div 2) EXCEPT
     !.is_minion = TRUE, !.size = 8, !.score_value = 5]

\* entries of the alive-set that carry the is_minion attribute
MinionCount(us, list) ==
  Cardinality({k \in 1..Len(list) : us[list[k]].is_minion})

\* a spawner test that does not look at creation_time
SpawnsMinionsAnyAge(u) ==
  u.spawn_minions /\ u.enemy_type = "spawner"

\* the spawner test of _handle_minion_spawning
SpawnsMinions(u) ==
  u.spawn_minions /\ u.enemy_type = "spawner" /\ u.creation_time > MINION_WARMUP

\* WaveManager._handle_minion_spawning from position k of the alive-set on;
\* rolls: the units whose 1% roll succeeds
RECURSIVE HandleMinionSpawning(_, _, _, _)
HandleMinionSpawning(w, us, k, rolls) ==
  IF k > Len(w.enemies_alive) THEN [w |-> w, units |-> us]
  ELSE LET id == w.enemies_alive[k]
           spawn == /\ SpawnsMinions(us[id])
                    /\ MinionCount(us, w.enemies_alive) < MINION_CAP
                    /\ id \in rolls
           a == Allocate(us, << >>, <<Minion(w.current_wave.enemy_health_multiplier)>>)
       IN IF spawn
            THEN HandleMinionSpawning(
                   [w EXCEPT !.enemies_alive = @ \o a.ids], a.units, k + 1, rolls)
            ELSE HandleMinionSpawning(w, us, k + 1, rolls)

\* one loop of WaveManager._update_enemies over the copy of a list: every
\* entry is updated, and an entry whose update returns False is removed
\* the unit after an Enemy.update call that took it from u to v, the call
\* counted if it found the unit active
Counted(u, v) ==
  [v EXCEPT !.updates = IF u.active THEN Min(@ + 1, MaxUpdates) ELSE @]

\* the units at the end of a frame: the count of update calls starts anew
FrameEnd(us) == [i \in DOMAIN us |-> [us[i] EXCEPT !.updates = 0]]

RECURSIVE UpdateEnemiesLoop(_, _, _, _, _, _, _, _)
UpdateEnemiesLoop(us, list, copy, dt, oob, ppos, gone, near) ==
  IF copy = << >> THEN [units |-> us, list |-> list]
  ELSE LET id == Head(copy)
           u == Counted(us[id], EnemyUpdate(us[id], dt, id \in oob, ppos, id \in gone,
                                            id \in near))
       IN UpdateEnemiesLoop([us EXCEPT ![id] = u],
                            IF u.active THEN list ELSE RemoveFirst(list, id),
                            Tail(copy), dt, oob, ppos, gone, near)

\* WaveManager._update_enemies
UpdateEnemies(w, us, dt, oob, gone, near) ==
  LET a == UpdateEnemiesLoop(us, w.enemies_alive, w.enemies_alive, dt, oob,
                             w.has_player_pos, gone, near)
      e == UpdateEnemiesLoop(a.units, w.event_enemies, w.event_enemies, dt, oob,
                             w.has_player_pos, gone, near)
  IN [w |-> [w EXCEPT !.enemies_alive = a.list, !.event_enemies = e.list],
      units |-> e.units]

\* special_event_timer after _handle_special_event has added dt; the timer is
\* only compared with the burst delay, so it is carried up to that value
EventTimer(w, dt) == Min(w.special_event_timer + dt, EVENT_DELAY)

\* WaveManager._handle_special_event, given the burst the spawner returns
HandleSpecialEvent(w, dt, ids) ==
  LET timer == EventTimer(w, dt)
  IN IF EventSpawnDue(w, timer)
       THEN [w EXCEPT !.special_event_timer = timer,
                      !.event_enemies = @ \o ids,
                      !.enemies_alive = @ \o ids]
       ELSE [w EXCEPT !.special_event_timer = timer]

\* WaveManager._handle_regular_spawning, given the list the spawner returns
HandleRegularSpawning(w, dt, ids) ==
  LET timer == w.spawn_timer + dt
  IN IF SpawnIntervalElapsed(w, timer)
       THEN [w EXCEPT !.spawn_timer = 0,
                      !.enemies_alive = @ \o ids,
                      !.current_wave.enemies_spawned = @ + Len(ids)]
       ELSE [w EXCEPT !.spawn_timer = timer]

\* the lists the spawner can return to this tick of an active wave
SpawnChoices(w, dt) ==
  LET cw == w.current_wave IN
  IF cw.is_special_event # NoEvent
    THEN IF EventSpawnDue(w, EventTimer(w, dt))
           THEN SpawnSpecialEvent(cw.is_special_event, w.current_wave_number,
                                  cw.enemy_health_multiplier)
           ELSE {<< >>}
    ELSE IF RegularSpawningDue(w) /\ SpawnIntervalElapsed(w, w.spawn_timer + dt)
           THEN SpawnWaveEnemy(cw.enemy_health_multiplier, cw.is_boss_wave,
                               w.current_wave_number)
           ELSE {<< >>}

\* the spawner is called in this tick
SpawnCalled(w, dt) ==
  LET cw == w.current_wave IN
  IF cw.is_special_event # NoEvent
    THEN EventSpawnDue(w, EventTimer(w, dt))
    ELSE RegularSpawningDue(w) /\ SpawnIntervalElapsed(w, w.spawn_timer + dt)

\* the spawning step of WaveManager.update
SpawnStep(w, dt, ids) ==
  IF w.current_wave.is_special_event # NoEvent
    THEN HandleSpecialEvent(w, dt, ids)
    ELSE IF RegularSpawningDue(w)
           THEN HandleRegularSpawning(w, dt, ids)
           ELSE w

\* ------------------------------------------------------- player (collaborator)
\* Player.__init__: the fields the Combat Resolver reads and writes
PlayerInit ==
  [health |-> PLAYER_MAX_HEALTH, shield_active |-> FALSE,
   shield_energy |-> MAX_SHIELD_ENERGY, invulnerability_timer |-> 0]

\* shield states Player.update leaves behind: the shield down and full, up
\* with one more tick of energy, up and empty.  The player's own update of
\* the shield (keys, drain, recharge, clamp) is outside the components
\* modelled and nothing reads its result before the collision pass of the
\* frame: the pass draws it.
ShieldStates ==
  { [shield_active |-> FALSE, shield_energy |-> MAX_SHIELD_ENERGY],
    [shield_active |-> TRUE, shield_energy |-> SHIELD_DRAIN_RATE],
    [shield_active |-> TRUE, shield_energy |-> 0] }

\* the invulnerability timer after Player.update and the second decrement
\* of GameManager.update
PlayerUpdate(p, dt) ==
  LET t1 == IF p.invulnerability_timer > 0
              THEN p.invulnerability_timer - dt ELSE p.invulnerability_timer
      t2 == IF t1 > 0 THEN t1 - dt ELSE t1
  IN [p EXCEPT !.invulnerability_timer = t2]

\* the shield part of Player.update: _activate_shield while the shield key
\* is held, _deactivate_shield otherwise, then the clamp of
\* _update_shield_effects.  Energy in half points, rates per tick.
PlayerShieldUpdate(p, dt, key) ==
  LET e == IF key
             THEN IF p.shield_energy > 0
                    THEN p.shield_energy - SHIELD_DRAIN_RATE * dt
                    ELSE p.shield_energy
             ELSE IF p.shield_energy < MAX_SHIELD_ENERGY
                    THEN p.shield_energy + SHIELD_RECHARGE_RATE * dt
                    ELSE p.shield_energy
  IN [p EXCEPT !.shield_active = IF key THEN (p.shield_energy > 0 \/ @) ELSE FALSE,
               !.shield_energy = Max(0, Min(MAX_SHIELD_ENERGY, e))]

\* the shield as the collision pass finds it
WithShield(p, shield) ==
  [p EXCEPT !.shield_active = shield.shield_active,
            !.shield_energy = shield.shield_energy]

\* Player.take_damage: the player after the call
PlayerTakeDamage(p, damage) ==
  IF p.invulnerability_timer > 0
    THEN p
    ELSE [p EXCEPT !.health = @ - damage,
                   !.invulnerability_timer = INVULNERABILITY]

\* a death test that does not look at the invulnerability timer
PlayerDiedAnyTime(p, damage) ==
  p.health - damage <= 0

\* Player.take_damage: the value the call returns
PlayerDied(p, damage) ==
  p.invulnerability_timer <= 0 /\ p.health - damage <= 0

\* the part of GameManager.__init__ / _initialize_game_objects modelled
GameManagerInit == [dt |-> 1, game_over |-> FALSE]

\* the start of GameManager.update, up to the Wave Director's update: the
\* frame time and the player's update
BeginFrame(dt) ==
  /\ pc = "frame" /\ exception = "none" /\ ~gm.game_over
  /\ gm' = [gm EXCEPT !.dt = dt]
  /\ player' = PlayerUpdate(player, dt)

\* a frame up to the end of WaveManager.update, while no wave is active
BreakTick ==
  \E dt \in 1..MaxDt \cup {LongDt} :
  /\ BeginFrame(dt)
  /\ ~wm.wave_active
  /\ LET timer == wm.wave_break_timer + dt
         warn == WarningDue(wm, timer)
         note == ShowWavePreview(wm)
         w1 == [wm EXCEPT !.wave_break_timer = timer]
         w2 == [w1 EXCEPT !.wave_warning_shown = TRUE]
     IN IF warn /\ note = "AttributeError"
          THEN /\ wm' = w1
               /\ exception' = "AttributeError"
               /\ obs' = NoObs
               /\ UNCHANGED <<hist, pc>>
          ELSE /\ exception' = exception
               /\ pc' = "enemies"
               /\ IF BreakOver(timer)
                    THEN /\ hist.new_waves < MaxNewWaves
                         /\ \E variation \in Variations,
                               event \in DetermineSpecialEvent(wm.current_wave_number) :
                              wm' = StartNewWave(IF warn THEN w2 ELSE w1, variation, event)
                         /\ hist' = [hist EXCEPT !.new_waves = @ + 1, !.bursts = 0,
                                                 !.previews = IF warn THEN Min(@ + 1, 2) ELSE @]
                         /\ obs' = [NoObs EXCEPT
                                      !.notes = IF warn THEN <<note>> ELSE << >>,
                                      !.started = TRUE]
                    ELSE /\ wm' = (IF warn THEN w2 ELSE w1)
                         /\ hist' = [hist EXCEPT
                                       !.previews = IF warn THEN Min(@ + 1, 2) ELSE @]
                         /\ obs' = [NoObs EXCEPT
                                      !.notes = IF warn THEN <<note>> ELSE << >>]
  /\ UNCHANGED units

\* a frame up to the end of WaveManager.update, while a wave is active
ActiveTick ==
  \E dt \in 1..MaxDt :
  /\ BeginFrame(dt)
  /\ wm.wave_active
  /\ LET w1 == [wm EXCEPT !.wave_start_timer = IF @ > 0 THEN @ - dt ELSE @]
     IN \E new \in SpawnChoices(w1, dt) :
          /\ new = << >> \/ /\ Len(w1.enemies_alive) < MaxAlive
                            /\ Len(new) <= MaxGroup
                            /\ hist.new_waves = 0
                               \/ hist.spawns + Len(new) <= MaxNewSpawns
          /\ LET a == Allocate(units, << >>, new)
                 w2 == SpawnStep(w1, dt, a.ids)
                 called == SpawnCalled(w1, dt)
                 burst == called /\ w1.current_wave.is_special_event # NoEvent
             IN /\ \E rolls \in SUBSET {i \in DOMAIN a.units : SpawnsMinions(a.units[i])} :
                  LET m == HandleMinionSpawning(w2, a.units, 1, rolls)
                  IN /\ Len(m.w.enemies_alive) = Len(w2.enemies_alive)
                        \/ Len(w2.enemies_alive) <= MaxAlive
                     /\ \E oob \in Some({i \in DOMAIN m.units : m.units[i].active}),
                           gone \in Some({i \in DOMAIN m.units : m.units[i].bullets > 0}),
                           near \in Some({i \in DOMAIN m.units : m.units[i].ai_targeting}) :
                          LET r == UpdateEnemies(m.w, m.units, dt, oob, gone, near)
                              done == WaveComplete(r.w)
                              w3 == IF done THEN CompleteWave(r.w) ELSE r.w
                              h == Collect(w3, r.units)
                          IN /\ wm' = h.wm
                             /\ units' = h.units
                             /\ hist' = [hist EXCEPT
                                           !.bursts = IF burst THEN Min(@ + 1, MaxBursts) ELSE @,
                                           !.previews = IF done THEN 0 ELSE @,
                                           !.spawns = IF hist.new_waves = 0 THEN @
                                                      ELSE @ + Len(new)]
                             /\ obs' = [NoObs EXCEPT
                                   !.notes = (IF burst THEN <<"event_active">> ELSE << >>)
                                             \o (IF done THEN CompleteWaveNotes(r.w) ELSE << >>),
                                   !.spawned = Len(m.w.enemies_alive) - Len(w1.enemies_alive),
                                   !.bursts = IF burst THEN 1 ELSE 0,
                                   !.completed = done]
  /\ pc' = "enemies"
  /\ UNCHANGED exception

\* ------------------------------------------------------- Combat Resolver
\* the first loop of GameManager.update over self.enemies: a second update
\* of every entry, without the player position
\* no player position is passed here, so the distance to it is not read
RECURSIVE UpdateAll(_, _, _, _, _)
UpdateAll(us, list, dt, oob, gone) ==
  IF list = << >> THEN us
  ELSE UpdateAll([us EXCEPT ![Head(list)] =
                    Counted(us[Head(list)],
                            EnemyUpdate(us[Head(list)], dt, Head(list) \in oob, FALSE,
                                        Head(list) \in gone, FALSE))],
                 Tail(list), dt, oob, gone)

\* WaveManager.remove_enemy
RemoveEnemy(w, id) ==
  [w EXCEPT !.enemies_alive = RemoveFirst(@, id),
            !.event_enemies = RemoveFirst(@, id)]

\* the removal loop of GameManager.update over a copy of self.enemies, which
\* is the Director's alive-set itself: list.remove raises ValueError for an
\* entry that is no longer in the list
RECURSIVE RemoveInactive(_, _, _)
RemoveInactive(w, us, copy) ==
  IF copy = << >> THEN [w |-> w, exception |-> "none"]
  ELSE LET id == Head(copy) IN
       IF us[id].active THEN RemoveInactive(w, us, Tail(copy))
       ELSE IF id \notin Range(w.enemies_alive)
              THEN [w |-> w, exception |-> "ValueError"]
              ELSE RemoveInactive(
                     RemoveEnemy([w EXCEPT !.enemies_alive = RemoveFirst(@, id)], id),
                     us, Tail(copy))

\* GameManager.update, from taking over the alive-set to the removal of the
\* inactive units
EnemiesUpdate ==
  /\ pc = "enemies" /\ exception = "none"
  /\ \E oob \in Some({i \in Range(wm.enemies_alive) : units[i].active}),
        gone \in Some({i \in Range(wm.enemies_alive) : units[i].bullets > 0}) :
       LET us == UpdateAll(units, wm.enemies_alive, gm.dt, oob, gone)
           r == RemoveInactive(wm, us, wm.enemies_alive)
           h == Collect(r.w, us)
       IN /\ wm' = h.wm
          /\ units' = h.units
          /\ exception' = r.exception
          /\ pc' = IF r.exception = "none" THEN "collide" ELSE pc
  /\ obs' = NoObs
  /\ UNCHANGED <<player, gm, hist>>

\* the state one collision pass threads through its loops
Pass(w, us, p, g) ==
  [wm |-> w, units |-> us, player |-> p, gm |-> g, exception |-> "none",
   obs |-> NoObs]

\* GameManager._trigger_game_over
TriggerGameOver(c) ==
  [c EXCEPT !.gm.game_over = TRUE, !.obs.game_overs = @ + 1]

\* GameManager._handle_enemy_death_effects for unit id: self.enemies and
\* wave_manager.enemies_alive are one list, extended twice
HandleEnemyDeathEffects(c, id) ==
  LET u == c.units[id]
      children == GetSplitEnemies(u)
      a == Allocate(c.units, << >>, children)
      c1 == IF u.split_on_death /\ children # << >>
              THEN [c EXCEPT !.units = a.units,
                             !.wm.enemies_alive = @ \o a.ids \o a.ids]
              ELSE c
  IN IF u.energy_drain /\ c1.player.shield_energy < MAX_SHIELD_ENERGY
       THEN [c1 EXCEPT !.player.shield_energy =
                          Min(MAX_SHIELD_ENERGY, @ + DEATH_RESTORE * EnergyScale)]
       ELSE c1

\* what a pass records of a death the bullet loop reports for unit u: the
\* entries the alive-set gains, and the children behind them
SplitRecord(c, c2, u) ==
  LET n == Len(c2.wm.enemies_alive) - Len(c.wm.enemies_alive)
      added == {c2.wm.enemies_alive[Len(c.wm.enemies_alive) + k] : k \in 1..n}
  IN [entries |-> n,
      children |-> Cardinality(added),
      health |-> {c2.units[i].health : i \in added},
      score |-> {c2.units[i].score_value : i \in added},
      parent_score |-> u.score_value]

\* the body of the bullet loop for a projectile of the given damage that
\* overlaps unit id first
BulletHit(c, id, damage) ==
  LET u == c.units[id]
      c1 == [c EXCEPT !.units[id] = TakeDamageUnit(u, damage),
                      !.obs.dead_hits = @ \/ ~u.active]
      c2 == HandleEnemyDeathEffects(c1, id)
  IN IF TakeDamageResult(u, damage)
       THEN [c2 EXCEPT !.obs.kills = Min(@ + 1, 2),
                       !.obs.dead_kills = @ \/ ~u.active,
                       !.obs.split = IF u.split_on_death /\ u.active
                                       THEN <<SplitRecord(c, c2, u)>> ELSE @]
       ELSE c1

\* the outcomes of one projectile: it misses, or hits one entry of the list
OneBullet(c, damage) ==
  {c} \cup {BulletHit(c, id, damage) : id \in Range(c.wm.enemies_alive)}

\* the bullet loop of _handle_enhanced_collisions over n projectiles of the
\* weapon's current damage
RECURSIVE BulletsVsEnemies(_, _, _)
BulletsVsEnemies(c, n, damage) ==
  IF n = 0 THEN {c}
  ELSE UNION {BulletsVsEnemies(d, n - 1, damage) : d \in OneBullet(c, damage)}

\* one enemy projectile overlapping the player
EnemyBulletHit(c, id) ==
  LET c1 == [c EXCEPT !.units[id].bullets = @ - 1] IN
  IF c.player.shield_active /\ c.player.shield_energy > 0
    THEN [c1 EXCEPT !.player.shield_energy =
                       @ - ENEMY_BULLET_SHIELD_FACTOR * EnergyScale]
    ELSE LET c2 == [c1 EXCEPT !.player =
                                 PlayerTakeDamage(c.player, ENEMY_BULLET_FACTOR)]
         IN IF PlayerDied(c.player, ENEMY_BULLET_FACTOR)
              THEN TriggerGameOver(c2)
              ELSE c2

\* the enemy-bullet loop from position k of self.enemies on; hitters: the
\* units with a projectile that overlaps the player
RECURSIVE EnemyBulletsVsPlayer(_, _, _)
EnemyBulletsVsPlayer(c, k, hitters) ==
  LET list == c.wm.enemies_alive IN
  IF k > Len(list) THEN c
  ELSE IF list[k] \in hitters /\ c.units[list[k]].bullets > 0
         THEN EnemyBulletsVsPlayer(EnemyBulletHit(c, list[k]), k + 1, hitters)
         ELSE EnemyBulletsVsPlayer(c, k + 1, hitters)

\* GameManager._handle_enemy_collision_effects
HandleEnemyCollisionEffects(c, id) ==
  IF c.units[id].energy_drain /\ c.player.shield_energy > 0
    THEN [c EXCEPT !.player.shield_energy =
                      @ - Min(CONTACT_DRAIN * EnergyScale, @)]
    ELSE c

\* the damage of a body collision with unit u
BodyDamage(u) ==
  IF u.is_boss THEN BODY_DAMAGE * 2
  ELSE IF u.size > 20 THEN (BODY_DAMAGE * 3) \div 2
  ELSE BODY_DAMAGE

\* the body of the enemy-player loop for a unit that overlaps the player
BodyCollision(c, id) ==
  LET u == c.units[id]
      c1 == HandleEnemyCollisionEffects(c, id)
      c2 == [c1 EXCEPT !.units[id].active = FALSE]
      c3 == IF c1.player.shield_active /\ c1.player.shield_energy > 0
              THEN [c2 EXCEPT !.player.shield_energy =
                                 @ - (SHIELD_BODY_COST + u.size) * EnergyScale]
              ELSE LET c4 == [c2 EXCEPT !.player =
                                          PlayerTakeDamage(c1.player, BodyDamage(u))]
                   IN IF PlayerDied(c1.player, BodyDamage(u))
                        THEN TriggerGameOver(c4)
                        ELSE c4
  IN [c3 EXCEPT !.obs.dead_harm = @ \/ (~u.active /\ c3.player # c.player),
                !.obs.body_deaths =
                   IF u.active /\ u.split_on_death
                     THEN @ \cup {Len(c3.wm.enemies_alive) - Len(c.wm.enemies_alive)}
                     ELSE @]

\* the enemy-player loop over the copy of self.enemies; touch: the units
\* whose rectangle overlaps the player's
RECURSIVE EnemiesVsPlayer(_, _, _)
EnemiesVsPlayer(c, copy, touch) ==
  IF copy = << >> THEN c
  ELSE IF Head(copy) \in touch
         THEN EnemiesVsPlayer(BodyCollision(c, Head(copy)), Tail(copy), touch)
         ELSE EnemiesVsPlayer(c, Tail(copy), touch)

\* GameManager._handle_special_enemy_abilities from position k on; near: the
\* units closer than 150 to the player.  The module never imports random, so
\* the roll after the first drain raises NameError.
RECURSIVE HandleSpecialEnemyAbilities(_, _, _)
HandleSpecialEnemyAbilities(c, k, near) ==
  LET list == c.wm.enemies_alive IN
  IF k > Len(list) THEN c
  ELSE LET u == c.units[list[k]] IN
       IF /\ u.energy_drain /\ u.enemy_type = "energy_vampire"
          /\ list[k] \in near /\ c.player.shield_energy > 0
         THEN [c EXCEPT !.player.shield_energy =
                           Max(0, @ - (PROXIMITY_DRAIN * EnergyScale * c.gm.dt)
                                         \div TicksPerSecond),
                        !.exception = "NameError"]
         ELSE HandleSpecialEnemyAbilities(c, k + 1, near)

\* GameManager._handle_enhanced_collisions
Collisions ==
  /\ pc = "collide" /\ exception = "none"
  /\ LET ids == Range(wm.enemies_alive)
     IN \E damage \in {BULLET_DAMAGE}, shield \in ShieldStates :
        \E c1 \in BulletsVsEnemies(
                     Pass([wm EXCEPT !.has_player_pos = TRUE], units,
                          WithShield(player, shield), gm),
                     MaxBullets, damage) :
        \E hitters \in Some({i \in ids : units[i].bullets > 0}),
           touch \in Some(Range(c1.wm.enemies_alive)),
           near \in Some({i \in ids : units[i].enemy_type = "energy_vampire"}) :
          LET c2 == EnemyBulletsVsPlayer(c1, 1, hitters)
              c4 == EnemiesVsPlayer(c2, c2.wm.enemies_alive, touch)
              c5 == HandleSpecialEnemyAbilities(c4, 1, near)
              h == Collect(c5.wm, c5.units)
          IN /\ wm' = h.wm
             /\ units' = (IF c5.exception = "none" THEN FrameEnd(h.units) ELSE h.units)
             /\ player' = c5.player
             /\ gm' = c5.gm
             /\ exception' = c5.exception
             /\ pc' = IF c5.exception = "none" THEN "frame" ELSE pc
             /\ obs' = c5.obs
  /\ UNCHANGED hist

\* ---------------------------------------------------------- specification
\* the waves a run is observed from
StartWaves == {1, 4, 8}

\* the point a wave is observed from.  Wave 1 and the special-event waves
\* are taken from start_new_wave; a later regular wave from the frame in
\* which all but LateRemaining units of its quota have been spawned and
\* destroyed, the last of them in the frame before.
StartPoint(n, variation, event) ==
  LET w == StartNewWave([WaveManagerInit EXCEPT !.current_wave_number = n,
                                                !.has_player_pos = (n > 1)],
                        variation, event)
  IN IF n = 1 \/ event # NoEvent
       THEN w
       ELSE [w EXCEPT !.wave_start_timer = 0,
                      !.spawn_timer = 1,
                      !.current_wave.enemies_spawned =
                         w.current_wave.enemies_to_spawn - LateRemaining]

\* the state after GameManager._initialize_game_objects (wave 1), or a later
\* point of a game
Init ==
  /\ \E n \in StartWaves, variation \in Variations :
     \E event \in DetermineSpecialEvent(n) :
       wm = StartPoint(n, variation, event)
  /\ units = << >>
  /\ player = PlayerInit
  /\ gm = GameManagerInit
  /\ pc = "frame"
  /\ exception = "none"
  /\ obs = NoObs
  /\ hist = [new_waves |-> 0, bursts |-> 0, spawns |-> 0, previews |-> 0]

Next == BreakTick \/ ActiveTick \/ EnemiesUpdate \/ Collisions

Spec == Init /\ [][Next]_vars

\* a game observed from the frame in which wave 3 was completed, the break
\* before wave 4 ahead
EventInit ==
  /\ \E variation \in Variations :
       LET w == StartNewWave([WaveManagerInit EXCEPT !.current_wave_number = 3,
                                                     !.has_player_pos = TRUE],
                             variation, NoEvent)
       IN wm = CompleteWave([w EXCEPT !.current_wave.enemies_spawned =
                                          w.current_wave.enemies_to_spawn])
  /\ units = << >>
  /\ player = PlayerInit
  /\ gm = GameManagerInit
  /\ pc = "frame"
  /\ exception = "none"
  /\ obs = NoObs
  /\ hist = [new_waves |-> 0, bursts |-> 0, spawns |-> 0, previews |-> 0]

\* the main loop of GameManager.run runs a frame after the other for as long
\* as the game is open: a frame step that can be taken is taken
EventSpec == EventInit /\ [][Next]_vars /\ WF_vars(Next)

\* ------------------------------------------- the sequence of drawn waves
\* The waves of a game one after the other, each as Wave.__init__ draws it,
\* the play of the wave left out.  hist.prev is the wave before.
WaveInit ==
  /\ \E variation \in AllVariations :
       wm = StartNewWave(WaveManagerInit, variation, NoEvent)
  /\ units = << >>
  /\ player = PlayerInit
  /\ gm = GameManagerInit
  /\ pc = "frame"
  /\ exception = "none"
  /\ obs = NoObs
  /\ hist = [prev |-> NoWave]

\* the current wave is completed and start_new_wave draws the next one
NextWaveDrawn ==
  /\ wm.current_wave_number < MaxWave
  /\ \E variation \in AllVariations,
        event \in DetermineSpecialEventFrom(wm.current_wave_number + 1, SpecialEvents) :
       wm' = StartNewWave(CompleteWave(wm), variation, event)
  /\ hist' = [prev |-> wm.current_wave]
  /\ UNCHANGED <<units, player, gm, pc, exception, obs>>

WaveNext == NextWaveDrawn

WaveSpec == WaveInit /\ [][WaveNext]_vars

\* ------------------------------------------------------ a unit taken alone
\* One unit of any type, updated and hit in any order.  hist is the last
\* call made on it: the operation, its arguments, the unit before the call
\* and the value take_damage returned.
NoCall ==
  [op |-> "none", dt |-> 0, ppos |-> FALSE, near |-> FALSE, damage |-> 0,
   before |-> [enemy_type |-> "none"], result |-> FALSE]

UnitInit ==
  /\ \E t \in EnemyTypes : units = <<Enemy(t)>>
  /\ wm = WaveManagerInit
  /\ player = PlayerInit
  /\ gm = GameManagerInit
  /\ pc = "frame"
  /\ exception = "none"
  /\ obs = NoObs
  /\ hist = NoCall

\* Enemy.update is called on the unit
UnitUpdated ==
  /\ units[1].active
  /\ \E dt \in 1..MaxDt, oob \in BOOLEAN, ppos \in BOOLEAN, near \in BOOLEAN,
        gone \in BOOLEAN :
       /\ units' = <<EnemyUpdate(units[1], dt, oob, ppos, gone, near)>>
       /\ hist' = [NoCall EXCEPT !.op = "update", !.dt = dt, !.ppos = ppos,
                                 !.near = near, !.before = units[1]]
  /\ UNCHANGED <<wm, player, gm, pc, exception, obs>>

\* Enemy.take_damage is called on the unit
UnitHit ==
  /\ units[1].active
  /\ \E damage \in 1..MaxDamage :
       /\ units' = <<TakeDamageUnit(units[1], damage)>>
       /\ hist' = [NoCall EXCEPT !.op = "take_damage", !.damage = damage,
                                 !.before = units[1],
                                 !.result = TakeDamageResult(units[1], damage)]
  /\ UNCHANGED <<wm, player, gm, pc, exception, obs>>

UnitNext == UnitUpdated \/ UnitHit

UnitSpec == UnitInit /\ [][UnitNext]_vars

\* ------------------------------------------------- boss spawns taken alone
\* _spawn_boss_wave called for any wave, with the health multiplier of that
\* wave and every outcome of its random choices.  hist is the last call:
\* its wave number, the list returned and the places of the units.
NoSpawn == [wave_number |-> 0, enemies |-> << >>, places |-> << >>]

SpawnerInit ==
  /\ wm = WaveManagerInit
  /\ units = << >>
  /\ player = PlayerInit
  /\ gm = GameManagerInit
  /\ pc = "frame"
  /\ exception = "none"
  /\ obs = NoObs
  /\ hist = NoSpawn

BossWaveSpawned ==
  /\ \E wave_number \in 1..MaxWave :
     \E r \in SpawnBossWavePlaced(CalculateHealthMultiplier(wave_number),
                                  wave_number, EnemyTypes) :
       hist' = [wave_number |-> wave_number, enemies |-> r.enemies,
                places |-> r.places]
  /\ UNCHANGED <<wm, units, player, gm, pc, exception, obs>>

SpawnerNext == BossWaveSpawned

SpawnerSpec == SpawnerInit /\ [][SpawnerNext]_vars

\* ------------------------------------------------------- the score manager
\* ScoreManager.__init__.  Multipliers are in tenths (MultiplierScale).
\* since: the time since last_kill_time, carried up to just past the combo
\* decay time; no kill has been made at the start.
ScoreManagerInit ==
  [score |-> 0, combo_count |-> 0, combo_timer |-> 0,
   score_multiplier |-> MultiplierScale, since |-> COMBO_DECAY_TIME + 1,
   total_kills |-> 0]

\* ScoreManager.add_kill_score: the combo count after the call
ComboAfter(sm) ==
  IF sm.since <= COMBO_DECAY_TIME THEN sm.combo_count + 1 ELSE 1

\* ScoreManager.add_kill_score: the value it adds and returns,
\* int(base_score * combo_multiplier * score_multiplier).  For the base
\* scores followed (10, 50, 100, 110) the truncated float product is the
\* integer quotient below.
FinalScore(sm, base_score) ==
  LET combo_multiplier ==
        Min(MultiplierScale + (ComboAfter(sm) - 1) * COMBO_BONUS_MULTIPLIER,
            SCORE_MULTIPLIER_MAX)
  IN (base_score * combo_multiplier * sm.score_multiplier)
       \div (MultiplierScale * MultiplierScale)

\* ScoreManager.add_kill_score: the score manager after the call
AddKillScore(sm, base_score) ==
  [sm EXCEPT !.combo_count = ComboAfter(sm),
             !.combo_timer = IF sm.since <= COMBO_DECAY_TIME
                               THEN COMBO_DISPLAY_DURATION ELSE @,
             !.since = 0,
             !.total_kills = @ + 1,
             !.score = @ + FinalScore(sm, base_score)]

\* ScoreManager.update after dt more time has passed
ScoreManagerUpdate(sm, dt) ==
  LET since == Min(sm.since + dt, COMBO_DECAY_TIME + 1)
  IN [sm EXCEPT !.since = since,
                !.combo_timer = IF @ > 0 THEN @ - dt ELSE @,
                !.combo_count = IF since > COMBO_DECAY_TIME /\ @ > 1 THEN 0 ELSE @]

\* the base scores of the kills followed: score_value of the model's types
KillScores == {enemy_configs[t].score : t \in ModelTypes}

\* The score manager of a game taken alone: kills, power-up collections and
\* frames in any order.  hist is the last scored event and what it awarded.
NoAward == [op |-> "none", awarded |-> 0]

ScoreInit ==
  /\ gm = [dt |-> 1, game_over |-> FALSE, score_manager |-> ScoreManagerInit]
  /\ wm = WaveManagerInit
  /\ units = << >>
  /\ player = PlayerInit
  /\ pc = "frame"
  /\ exception = "none"
  /\ obs = NoObs
  /\ hist = NoAward

\* a bullet destroys a unit: the kill is scored (game_manager.py 298-300)
KillScored ==
  /\ gm.score_manager.total_kills < MaxKills
  /\ \E base_score \in KillScores :
       /\ gm' = [gm EXCEPT !.score_manager = AddKillScore(@, base_score)]
       /\ hist' = [op |-> "kill",
                   awarded |-> FinalScore(gm.score_manager, base_score)]
  /\ UNCHANGED <<wm, units, player, pc, exception, obs>>

\* the player collects a power-up (game_manager.py 349-354)
PowerupCollected ==
  /\ gm.score_manager.total_kills < MaxKills
  /\ gm' = [gm EXCEPT !.score_manager = AddKillScore(@, POWERUP_BONUS)]
  /\ hist' = [op |-> "powerup",
              awarded |-> FinalScore(gm.score_manager, POWERUP_BONUS)]
  /\ UNCHANGED <<wm, units, player, pc, exception, obs>>

\* a frame passes: score_manager.update (game_manager.py 260)
ScoreFrame ==
  /\ \E dt \in 1..MaxDt :
       gm' = [gm EXCEPT !.dt = dt,
                        !.score_manager = ScoreManagerUpdate(@, dt)]
  /\ hist' = NoAward
  /\ UNCHANGED <<wm, units, player, pc, exception, obs>>

ScoreNext == KillScored \/ PowerupCollected \/ ScoreFrame

ScoreSpec == ScoreInit /\ [][ScoreNext]_vars

\* ------------------------------------- the player under enemy projectiles
\* The player and one shooting unit of wave 4: in each frame the player's
\* update, shield key held or not, and a shot of the unit or none; then the
\* enemy-bullet loop of the collision pass.  hist is the player before the
\* last pass and the projectiles that hit in it.
NoHit == [op |-> "none", hits |-> 0, before |-> PlayerInit]

ProjectileInit ==
  /\ wm = [StartPoint(4, 0, NoEvent) EXCEPT !.enemies_alive = <<1>>]
  /\ units = <<CreateEnemy("sniper", CalculateHealthMultiplier(4))>>
  /\ player = PlayerInit
  /\ gm = GameManagerInit
  /\ pc = "frame"
  /\ exception = "none"
  /\ obs = NoObs
  /\ hist = NoHit

\* Player.update of a frame, and Enemy._try_shoot of the unit or not
ProjectileFrame ==
  /\ pc = "frame" /\ ~gm.game_over
  /\ \E dt \in 1..MaxDt, key \in BOOLEAN, fired \in BOOLEAN :
       /\ gm' = [gm EXCEPT !.dt = dt]
       /\ player' = PlayerShieldUpdate(PlayerUpdate(player, dt), dt, key)
       /\ units' = [units EXCEPT ![1].bullets =
                                   IF fired THEN Min(@ + 1, MaxInFlight) ELSE @]
  /\ pc' = "collide"
  /\ hist' = NoHit
  /\ UNCHANGED <<wm, exception, obs>>

\* the enemy-bullet loop of GameManager._handle_enhanced_collisions
ProjectilePass ==
  /\ pc = "collide"
  /\ \E hitters \in SUBSET {i \in DOMAIN units : units[i].bullets > 0} :
       LET c == EnemyBulletsVsPlayer(Pass(wm, units, player, gm), 1, hitters)
       IN /\ wm' = c.wm
          /\ units' = c.units
          /\ player' = c.player
          /\ gm' = c.gm
          /\ obs' = c.obs
          /\ hist' = [op |-> "pass", hits |-> Cardinality(hitters),
                      before |-> player]
  /\ pc' = "frame"
  /\ UNCHANGED exception

ProjectileNext == ProjectileFrame \/ ProjectilePass

ProjectileSpec == ProjectileInit /\ [][ProjectileNext]_vars

\* ----------------------------------------------- the spawn calls taken alone
\* The calls that create units, each for any wave with the health multiplier
\* of that wave and every outcome of its random choices.  hist is the last
\* call: which one, its wave number and event type, and the list returned.
NoUnits == [call |-> "none", wave_number |-> 0, event |-> NoEvent, enemies |-> << >>]

Returned(call, wave_number, event, enemies) ==
  [call |-> call, wave_number |-> wave_number, event |-> event, enemies |-> enemies]

GeneratorInit ==
  /\ wm = WaveManagerInit
  /\ units = << >>
  /\ player = PlayerInit
  /\ gm = GameManagerInit
  /\ pc = "frame"
  /\ exception = "none"
  /\ obs = NoObs
  /\ hist = NoUnits

\* spawn_special_event for an event type the wave can have drawn
EventBurstSpawned ==
  /\ \E wave_number \in 1..MaxWave :
     \E event \in DetermineSpecialEventFrom(wave_number, SpecialEvents) \ {NoEvent} :
     \E list \in SpawnSpecialEventFrom(event, wave_number,
                                       CalculateHealthMultiplier(wave_number), EnemyTypes) :
       hist' = Returned("special_event", wave_number, event, list)
  /\ UNCHANGED <<wm, units, player, gm, pc, exception, obs>>

\* _spawn_formation, which spawn_wave_enemy calls from wave 6 on
FormationSpawned ==
  /\ \E wave_number \in 6..MaxWave :
     \E list \in SpawnFormationFrom(CalculateHealthMultiplier(wave_number),
                                    wave_number, EnemyTypes) :
       hist' = Returned("formation", wave_number, NoEvent, list)
  /\ UNCHANGED <<wm, units, player, gm, pc, exception, obs>>

\* _spawn_elite_group, which spawn_wave_enemy calls from wave 4 on
EliteGroupSpawned ==
  /\ \E wave_number \in 4..MaxWave :
     \E list \in SpawnEliteGroupFrom(CalculateHealthMultiplier(wave_number),
                                     wave_number, EnemyTypes, EnemyTypes) :
       hist' = Returned("elite_group", wave_number, NoEvent, list)
  /\ UNCHANGED <<wm, units, player, gm, pc, exception, obs>>

\* _spawn_regular_enemy
RegularSpawned ==
  /\ \E wave_number \in 1..MaxWave :
     \E list \in SpawnRegularEnemyFrom(CalculateHealthMultiplier(wave_number),
                                       wave_number, EnemyTypes) :
       hist' = Returned("regular", wave_number, NoEvent, list)
  /\ UNCHANGED <<wm, units, player, gm, pc, exception, obs>>

\* _spawn_boss_wave, which spawn_wave_enemy calls in a boss wave
BossSpawned ==
  /\ \E wave_number \in {w \in 1..MaxWave : w % WAVE_BOSS_FREQUENCY = 0} :
     \E r \in SpawnBossWavePlaced(CalculateHealthMultiplier(wave_number),
                                  wave_number, EnemyTypes) :
       hist' = Returned("boss", wave_number, NoEvent, r.enemies)
  /\ UNCHANGED <<wm, units, player, gm, pc, exception, obs>>

\* the minion _handle_minion_spawning creates next to a spawner
MinionSpawned ==
  /\ \E wave_number \in 1..MaxWave :
       hist' = Returned("minion", wave_number, NoEvent,
                        <<Minion(CalculateHealthMultiplier(wave_number))>>)
  /\ UNCHANGED <<wm, units, player, gm, pc, exception, obs>>

GeneratorNext ==
  \/ EventBurstSpawned \/ FormationSpawned \/ EliteGroupSpawned
  \/ RegularSpawned \/ BossSpawned \/ MinionSpawned

GeneratorSpec == GeneratorInit /\ [][GeneratorNext]_vars

\* ------------------------------------------------------ the power-ups
\* the power-up types the drops are drawn from
ModelPowerupTypes == {"shield_boost", "rapid_fire"}

\* effect_durations of PowerUpManager.check_collection, in ticks
effect_durations == [shield_boost |-> 0, rapid_fire |-> WEAPON_RAPID_FIRE_DURATION]

\* the entries of a list at the places in keep, in the order of the list
SubList(list, keep) ==
  LET F[k \in 0..Len(list)] ==
        IF k = 0 THEN << >>
        ELSE IF k \in keep THEN Append(F[k - 1], list[k]) ELSE F[k - 1]
  IN F[Len(list)]

\* PowerUpManager.update: power-ups whose lifetime is over are dropped, the
\* timers of the active effects run down and expired effects are deleted
PowerUpManagerUpdate(pm, dt) ==
  LET aged == [k \in DOMAIN pm.powerups |->
                 [pm.powerups[k] EXCEPT !.lifetime = @ - dt]]
      left == {t \in DOMAIN pm.active_effects : pm.active_effects[t] - dt > 0}
  IN [powerups |-> SubList(aged, {k \in DOMAIN aged : aged[k].lifetime > 0}),
      active_effects |-> [t \in left |-> pm.active_effects[t] - dt]]

\* PowerUpManager.check_collection: the types it returns; touched: the
\* places of the power-ups whose rectangle overlaps the player's
Collected(pm, touched) ==
  LET hit == SubList(pm.powerups, touched)
  IN [k \in DOMAIN hit |-> hit[k].powerup_type]

\* PowerUpManager.check_collection: the manager after the call.  An effect
\* is entered in active_effects only if its duration is above 0.
CheckCollection(pm, touched) ==
  LET timed == {t \in Range(Collected(pm, touched)) : effect_durations[t] > 0}
  IN [powerups |-> SubList(pm.powerups, DOMAIN pm.powerups \ touched),
      active_effects |->
        [t \in DOMAIN pm.active_effects \cup timed |->
           IF t \in timed THEN effect_durations[t] ELSE pm.active_effects[t]]]

\* Player.apply_powerup_effects, the shield boost: the player and the
\* manager after the call.  is_effect_active: the type is a key of
\* active_effects.
ApplyPowerupEffects(p, pm) ==
  IF "shield_boost" \in DOMAIN pm.active_effects
    THEN [player |-> [p EXCEPT !.shield_energy =
                                 Min(MAX_SHIELD_ENERGY, @ + SHIELD_BOOST_ENERGY)],
          pm |-> [pm EXCEPT !.active_effects =
                    [t \in DOMAIN @ \ {"shield_boost"} |-> @[t]]]]
    ELSE [player |-> p, pm |-> pm]

\* The player and the power-ups of a game taken alone: in each frame the
\* manager's update, the effects applied to the player and the player's
\* update; then a drop or none and the collection of the collision pass.
\* hist is, after a pass, the types collected in it and, after a frame,
\* whether the pass before collected a shield boost, with the shield energy
\* before and after the effects were applied.
NoCollection ==
  [op |-> "none", collected |-> << >>, boost_due |-> FALSE,
   before |-> 0, applied |-> 0]

\* PowerUpManager.__init__: no power-up on the screen; active_effects maps
\* the active types to their remaining time
PowerupInit ==
  /\ gm = [dt |-> 1, game_over |-> FALSE,
           powerup_manager |-> [powerups |-> << >>, active_effects |-> << >>]]
  /\ wm = WaveManagerInit
  /\ units = << >>
  /\ player = PlayerInit
  /\ pc = "frame"
  /\ exception = "none"
  /\ obs = NoObs
  /\ hist = NoCollection

\* GameManager.update: powerup_manager.update, apply_powerup_effects and
\* Player.update (game_manager.py 213-224)
PowerupFrame ==
  /\ pc = "frame" /\ ~gm.game_over
  /\ \E dt \in 1..MaxDt, key \in BOOLEAN :
       LET ap == ApplyPowerupEffects(player,
                    PowerUpManagerUpdate(gm.powerup_manager, dt))
       IN /\ gm' = [gm EXCEPT !.dt = dt, !.powerup_manager = ap.pm]
          /\ player' = PlayerShieldUpdate(PlayerUpdate(ap.player, dt), dt, key)
          /\ hist' = [op |-> "frame", collected |-> << >>,
                      boost_due |-> "shield_boost" \in Range(hist.collected),
                      before |-> player.shield_energy,
                      applied |-> ap.player.shield_energy]
  /\ pc' = "collide"
  /\ UNCHANGED <<wm, units, exception, obs>>

\* the collision pass: a kill drops a power-up or not (try_spawn_powerup
\* appends a PowerUp with the full lifetime, game_manager.py 303), then the
\* power-up collection (game_manager.py 349-354)
PowerupPass ==
  /\ pc = "collide"
  /\ \E drop \in ModelPowerupTypes \cup {"none"} :
       /\ drop # "none" => Len(gm.powerup_manager.powerups) < MaxPowerups
       /\ LET pm == IF drop = "none" THEN gm.powerup_manager
                    ELSE [gm.powerup_manager EXCEPT !.powerups =
                            Append(@, [powerup_type |-> drop,
                                       lifetime |-> POWERUP_LIFETIME])]
          IN \E touched \in SUBSET DOMAIN pm.powerups :
               /\ gm' = [gm EXCEPT !.powerup_manager = CheckCollection(pm, touched)]
               /\ hist' = [NoCollection EXCEPT !.op = "pass",
                                               !.collected = Collected(pm, touched)]
  /\ pc' = "frame"
  /\ UNCHANGED <<wm, units, player, exception, obs>>

PowerupNext == PowerupFrame \/ PowerupPass

PowerupSpec == PowerupInit /\ [][PowerupNext]_vars

\* ------------------------------------------------- the minions of a wave
\* Wave 8 with up to MaxSpawners spawner units: in each frame a spawner is
\* spawned or not, then the minion pass and the update of the units; in the
\* collision pass units are destroyed or not.  hist is the alive-set before
\* the last minion pass, the places whose 1% roll succeeded and the
\* alive-set after the pass, each entry with the fields the pass reads.
Seen(us, list) ==
  [k \in DOMAIN list |->
     [enemy_type |-> us[list[k]].enemy_type,
      creation_time |-> us[list[k]].creation_time,
      is_minion |-> us[list[k]].is_minion]]

NoPass == [op |-> "none", before |-> << >>, rolls |-> {}, passed |-> << >>]

MinionInit ==
  /\ wm = StartPoint(8, 0, NoEvent)
  /\ units = << >>
  /\ player = PlayerInit
  /\ gm = GameManagerInit
  /\ pc = "frame"
  /\ exception = "none"
  /\ obs = NoObs
  /\ hist = NoPass

\* WaveManager.update of an active wave: a spawner joins the alive-set or
\* not, _handle_minion_spawning, _update_enemies
MinionFrame ==
  /\ pc = "frame"
  /\ \E dt \in 1..MaxDt, join \in BOOLEAN :
       /\ join => Cardinality({i \in DOMAIN units :
                                 units[i].enemy_type = "spawner"}) < MaxSpawners
       /\ LET new == IF join
                       THEN <<CreateEnemy("spawner",
                                          wm.current_wave.enemy_health_multiplier)>>
                       ELSE << >>
              a == Allocate(units, << >>, new)
              w1 == [wm EXCEPT !.enemies_alive = @ \o a.ids]
          IN \E rolls \in SUBSET {k \in DOMAIN w1.enemies_alive :
                                    SpawnsMinions(a.units[w1.enemies_alive[k]])} :
               LET m == HandleMinionSpawning(
                          w1, a.units, 1, {w1.enemies_alive[k] : k \in rolls})
               IN \E oob \in Some({i \in DOMAIN m.units : m.units[i].active}) :
                    LET r == UpdateEnemies(m.w, m.units, dt, oob, {}, {})
                        h == Collect(r.w, r.units)
                    IN /\ wm' = h.wm
                       /\ units' = FrameEnd(h.units)
                       /\ gm' = [gm EXCEPT !.dt = dt]
                       /\ hist' = [op |-> "pass",
                                   before |-> Seen(a.units, w1.enemies_alive),
                                   rolls |-> rolls,
                                   passed |-> Seen(m.units, m.w.enemies_alive)]
  /\ pc' = "collide"
  /\ UNCHANGED <<player, exception, obs>>

\* the collision pass: projectiles destroy units of the alive-set or not
MinionCollisions ==
  /\ pc = "collide"
  /\ \E dead \in Some({i \in DOMAIN units : units[i].active}) :
       units' = [i \in DOMAIN units |->
                   IF i \in dead THEN TakeDamageUnit(units[i], units[i].health)
                   ELSE units[i]]
  /\ pc' = "frame"
  /\ hist' = NoPass
  /\ UNCHANGED <<wm, player, gm, exception, obs>>

MinionNext == MinionFrame \/ MinionCollisions

MinionSpec == MinionInit /\ [][MinionNext]_vars

\* ------------------------------------------------------ the end of a game
\* The player among up to MaxFoes units, from the start of a game or from
\* wave 4 with a sniper about: in each frame the player's update, a unit
\* joining or not, the units' update and the snipers' shots; then the
\* enemy-bullet loop and the enemy-player loop of the collision pass.  After
\* game-over the game is reset.  hist counts the game-over triggers of the
\* game.
\* The units that join are snipers once the type is unlocked, basic units
\* before.
GameOverInit ==
  /\ \E n \in {1, 4} : wm = StartPoint(n, 0, NoEvent)
  /\ units = << >>
  /\ player = PlayerInit
  /\ gm = GameManagerInit
  /\ pc = "frame"
  /\ exception = "none"
  /\ obs = NoObs
  /\ hist = [triggers |-> 0]

\* GameManager.update up to the collision pass: Player.update, a unit joins
\* or not, _update_enemies; a unit whose update has just shot (its
\* shoot_timer is back at the cooldown) has a projectile more in flight
GameOverFrame ==
  /\ pc = "frame" /\ ~gm.game_over
  /\ \E dt \in 1..MaxDt, t \in {"basic", "sniper", "none"} :
       /\ t # "none" =>
            /\ Len(wm.enemies_alive) < MaxFoes
            /\ (t = "sniper") <=>
                 (enemy_types["sniper"].unlock_wave <= wm.current_wave_number)
       /\ LET new == IF t = "none" THEN << >>
                     ELSE <<CreateEnemy(t, wm.current_wave.enemy_health_multiplier)>>
              a == Allocate(units, << >>, new)
              w1 == [wm EXCEPT !.enemies_alive = @ \o a.ids]
              r == UpdateEnemies(w1, a.units, dt, {}, {}, {})
              h == Collect(r.w, r.units)
              fired == {i \in DOMAIN h.units :
                          /\ h.units[i].can_shoot /\ h.units[i].active
                          /\ h.units[i].shoot_timer = h.units[i].shoot_cooldown}
          IN /\ wm' = h.wm
             /\ units' = [i \in DOMAIN h.units |->
                            [FrameEnd(h.units)[i] EXCEPT !.bullets =
                               IF i \in fired THEN Min(@ + 1, MaxInFlight) ELSE @]]
             /\ gm' = [gm EXCEPT !.dt = dt]
             /\ player' = PlayerUpdate(player, dt)
  /\ pc' = "collide"
  /\ obs' = NoObs
  /\ UNCHANGED <<exception, hist>>

\* the enemy-bullet loop and the enemy-player loop of
\* GameManager._handle_enhanced_collisions
GameOverPass ==
  /\ pc = "collide"
  /\ \E shield \in ShieldStates,
        hitters \in SUBSET {i \in DOMAIN units : units[i].bullets > 0},
        touch \in SUBSET Range(wm.enemies_alive) :
       LET p == WithShield(player, shield)
           c2 == EnemyBulletsVsPlayer(Pass(wm, units, p, gm), 1, hitters)
           c4 == EnemiesVsPlayer(c2, c2.wm.enemies_alive, touch)
           h == Collect(c4.wm, c4.units)
       IN /\ wm' = h.wm
          /\ units' = h.units
          /\ player' = c4.player
          /\ gm' = c4.gm
          /\ obs' = c4.obs
          /\ hist' = [triggers |-> hist.triggers + c4.obs.game_overs]
  /\ pc' = "frame"
  /\ UNCHANGED exception

\* GameManager._reset_game, from the game-over screen
ResetGame ==
  /\ gm.game_over
  /\ wm' = StartPoint(1, 0, NoEvent)
  /\ units' = << >>
  /\ player' = PlayerInit
  /\ gm' = [gm EXCEPT !.game_over = FALSE]
  /\ pc' = "frame"
  /\ obs' = [NoObs EXCEPT !.notes = <<"game_started">>]
  /\ hist' = [triggers |-> 0]
  /\ UNCHANGED exception

GameOverNext == GameOverFrame \/ GameOverPass \/ ResetGame

GameOverSpec == GameOverInit /\ [][GameOverNext]_vars

\* ------------------------------------------------------------ properties
\* the units the Director's two sets refer to
Tracked == Range(wm.enemies_alive) \cup Range(wm.event_enemies)

\* the completion notifications of _complete_wave
CompletionNotes == {"wave_cleared", "boss_defeated", "event_completed"}

\* the completion notifications among the notes of the last action
CompletionsNoted(notes) ==
  Cardinality({k \in DOMAIN notes : notes[k] \in CompletionNotes})

\* C1: the Director leaves Active for Break only through _complete_wave, and
\* only in a tick at whose completion check the quota is spawned and both the
\* alive-set and the event set are empty.
C1_CompletionOnlyWhenCleared ==
  [][(wm.wave_active /\ ~wm'.wave_active) =>
       /\ obs'.completed
       /\ wm'.current_wave.enemies_spawned >= wm'.current_wave.enemies_to_spawn
       /\ wm'.enemies_alive = << >>
       /\ wm'.event_enemies = << >>]_vars

\* a wave has just been completed after units of it were spawned
C1_Witness ==
  /\ obs.completed
  /\ ~wm.wave_active
  /\ wm.current_wave.enemies_spawned > 0

\* C2: enemies_spawned never exceeds enemies_to_spawn, whatever the number
\* of units one spawn tick returns.
C2_SpawnedWithinQuota ==
  wm.current_wave.enemies_spawned <= wm.current_wave.enemies_to_spawn

\* C3: the Director is in Break or in Active; it leaves Break only in a tick
\* in which the break timer reaches WAVE_BREAK_DURATION; a tick that begins
\* in Break adds no unit, the break timer does not run backwards while the
\* break lasts, and in Break both sets are empty.
C3_BreakAndActive ==
  [][/\ wm'.wave_active \in BOOLEAN
     /\ (~wm.wave_active /\ wm'.wave_active) =>
          /\ wm.wave_break_timer + gm'.dt >= WAVE_BREAK_DURATION
          /\ obs'.started
     /\ ~wm.wave_active =>
          /\ obs'.spawned = 0
          /\ wm'.enemies_alive = << >>
          /\ wm'.event_enemies = << >>
          /\ units' = << >>
     /\ (~wm.wave_active /\ ~wm'.wave_active) =>
          wm'.wave_break_timer >= wm.wave_break_timer
     /\ ~wm'.wave_active =>
          wm'.enemies_alive = << >> /\ wm'.event_enemies = << >>]_vars

\* a break has run its full length and the next wave has been started
C3_Witness ==
  /\ obs.started
  /\ wm.wave_active
  /\ hist.new_waves > 0

C5_DestroyedReportedOnce ==
  /\ \A i \in DOMAIN units : units[i].reported <= 1
  /\ ~obs.dead_kills

\* C6: the collision pass leaves an inactive unit alone: no projectile hit is
\* applied to it and no body collision with it changes the player.
C6_InactiveUnitInert ==
  /\ ~obs.dead_hits
  /\ ~obs.dead_harm

\* C7: every death of a split_on_death unit hands exactly 2 children to the
\* alive-set, each with health 1 and a third of the parent's score, whether
\* a projectile or a body collision destroyed the unit.
C7_SplitYieldsTwoChildren ==
  /\ \A k \in DOMAIN obs.split :
       /\ obs.split[k].children = 2
       /\ obs.split[k].health = {1}
       /\ obs.split[k].score = {obs.split[k].parent_score \div 3}
  /\ \A n \in obs.body_deaths : n = 2

\* C8: the special-event burst is spawned at most once in a wave.
C8_BurstSpawnedOnce ==
  hist.bursts <= 1

\* C9: no unit is added to the alive-set by a tick that leaves the
\* wave-announcement window running.
C9_NoSpawnWhileAnnouncing ==
  (pc = "enemies" /\ wm.wave_active /\ wm.wave_start_timer > 0) => obs.spawned = 0

\* C10: no frame pass raises an exception.
C10_NoException ==
  exception = "none"

\* C11: the quota of a wave is never below the quota of the wave before it,
\* whatever variation either wave drew.
C11_QuotaNonDecreasing ==
  hist.prev # NoWave =>
    wm.current_wave.enemies_to_spawn >= hist.prev.enemies_to_spawn

\* C12: a wave is a boss wave exactly when its number is a multiple of
\* WAVE_BOSS_FREQUENCY, and a boss wave carries no special-event tag.
C12_BossFlagAndEvent ==
  LET cw == wm.current_wave
  IN /\ cw.is_boss_wave <=> (cw.wave_number % WAVE_BOSS_FREQUENCY = 0)
     /\ cw.is_boss_wave => cw.is_special_event = NoEvent

\* wave 10 has been drawn as a boss wave after an event wave
C12_Witness ==
  /\ wm.current_wave.wave_number = 10
  /\ wm.current_wave.is_boss_wave
  /\ hist.prev.is_special_event # NoEvent

\* C13: a hit on a raised shield whose damage is at least the remaining
\* shield pool (pool in seconds, as the configuration gives it) deactivates
\* the shield, leaves health unchanged and returns false; so for pool 8 and
\* damage 10.
C13_ShieldExhaustedByHit ==
  (/\ hist.op = "take_damage"
   /\ hist.before.shield_active
   /\ hist.before.shield_timer > 0
   /\ hist.damage * TicksPerSecond >= hist.before.shield_timer)
  => /\ ~units[1].shield_active
     /\ units[1].health = hist.before.health
     /\ ~hist.result

\* C20: a berserker in state moving that is updated within distance 200 of
\* the known player position is charging afterwards, its speed raised by
\* its acceleration.
C20_BerserkerCharges ==
  (/\ hist.op = "update"
   /\ hist.before.enemy_type = "berserker"
   /\ hist.before.ai_state = "moving"
   /\ hist.ppos /\ hist.near)
  => /\ units[1].ai_state = "charging"
     /\ units[1].speed = hist.before.speed + hist.before.acceleration

\* C18: no timer is negative after a tick: the Director's wave_start_timer
\* and the shield_timer and shoot_timer of every unit are at least 0.
C18_TimersNeverNegative ==
  /\ wm.wave_start_timer >= 0
  /\ \A i \in DOMAIN units :
       units[i].shield_timer >= 0 /\ units[i].shoot_timer >= 0

\* C19: with frames following one another, a special-event wave that is
\* active is eventually completed (the Director is back in Break), unless the
\* game is over or has stopped with an exception.
C19_ActiveWaveCompletes ==
  (wm.wave_active /\ wm.current_wave.is_special_event # NoEvent)
    ~> (~wm.wave_active \/ gm.game_over \/ exception # "none")

\* C16: in each Break the wave preview is emitted exactly once: never more
\* than once, not before the break timer has reached the pre-roll, at the
\* latest in the frame that reaches it, and so exactly once by the time the
\* next wave has started, whatever the dt of the frames.
C16_OnePreviewPerBreak ==
  /\ hist.previews <= 1
  /\ ~wm.wave_active =>
       /\ (hist.previews = 1) <=> (wm.wave_break_timer >= WAVE_PREROLL)
       /\ (hist.previews = 1) <=> wm.wave_warning_shown
  /\ (wm.wave_active /\ hist.new_waves > 0) => hist.previews = 1

\* a single long frame has taken the break past the pre-roll and past its
\* whole duration: the preview was emitted and the wave started in it
C16_Witness ==
  /\ obs.started /\ Len(obs.notes) = 1
  /\ gm.dt = LongDt
  /\ wm.wave_active /\ hist.previews = 1

\* C15: a boss spawn of type destroyer or void_lord at wave 8 or later
\* returns exactly one unit flagged is_boss, the first, and 2 to 4 escorts
\* placed around the boss position, escort i of n at angle i * 360 / n.
C15_BossWithEscorts ==
  LET es == hist.enemies
      n == Len(es) - 1
  IN (/\ es # << >>
      /\ es[1].enemy_type \in {"destroyer", "void_lord"}
      /\ hist.wave_number >= 8)
     => /\ {i \in DOMAIN es : es[i].is_boss} = {1}
        /\ n \in 2..4
        /\ Len(hist.places) = n + 1
        /\ \A i \in 1..n :
             /\ hist.places[i + 1].cx = hist.places[1].x
             /\ hist.places[i + 1].cy = hist.places[1].y
             /\ hist.places[i + 1].rx = ESCORT_RADIUS_X
             /\ hist.places[i + 1].ry = ESCORT_RADIUS_Y
             /\ hist.places[i + 1].angle * n = (i - 1) * 360

\* the spawn of wave 10 has returned a destroyer with three escorts
C15_Witness ==
  /\ hist.wave_number = 10
  /\ Len(hist.enemies) = 4
  /\ hist.enemies[1].enemy_type = "destroyer"
  /\ hist.enemies[1].is_boss

\* C17: every collected power-up awards the fixed bonus of 50, whatever the
\* combo count and the time since the last kill.
C17_PowerupBonusFlat ==
  hist.op = "powerup" => hist.awarded = POWERUP_BONUS

\* C14: an enemy projectile that hits the player while the shield is active
\* with energy above 0 is absorbed: after the collision pass the shield
\* energy is the energy before less 10 per projectile, clamped at 0, health
\* is unchanged and the game is not over.
C14_ShieldAbsorbsClamped ==
  (/\ hist.op = "pass" /\ hist.hits > 0
   /\ hist.before.shield_active /\ hist.before.shield_energy > 0)
  => /\ player.shield_energy >= 0
     /\ player.shield_energy =
          Max(0, hist.before.shield_energy
                   - hist.hits * ENEMY_BULLET_SHIELD_FACTOR * EnergyScale)
     /\ player.health = hist.before.health
     /\ ~gm.game_over

\* C21: no unit is listed more than once in the alive-set.
C21_AliveSetNoDuplicates ==
  \A i, j \in DOMAIN wm.enemies_alive :
    wm.enemies_alive[i] = wm.enemies_alive[j] => i = j

\* C22: when the collision pass of a frame begins, every active unit of the
\* alive-set has had its behaviour update executed exactly once in the frame.
C22_UpdatedOncePerFrame ==
  pc = "collide" =>
    \A i \in Range(wm.enemies_alive) :
      units[i].active => units[i].updates = 1

\* C23: spawn_special_event returns a non-empty burst for every event type
\* and wave the event roll can give: 12 basic units for invasion, 4 units of
\* the elite tier for elite_squad, min(3, wave_number \div 5) >= 1 mini_boss
\* units for boss_rush.
C23_BurstNonEmpty ==
  LET es == hist.enemies
      types == {es[i].enemy_type : i \in DOMAIN es}
  IN hist.call = "special_event" =>
       /\ es # << >>
       /\ hist.event = "invasion" => Len(es) = 12 /\ types = {"basic"}
       /\ hist.event = "elite_squad" =>
            /\ Len(es) = 4
            /\ \A t \in types : enemy_types[t].tier = "elite"
       /\ hist.event = "boss_rush" =>
            /\ Len(es) = Min(3, hist.wave_number \div 5)
            /\ Len(es) >= 1
            /\ types = {"mini_boss"}

\* C24: every unit a spawn call creates has health and max_health of at
\* least 1.
C24_HealthAtLeastOne ==
  \A i \in DOMAIN hist.enemies :
    hist.enemies[i].health >= 1 /\ hist.enemies[i].max_health >= 1

\* C25: a formation spawn returns 3 to 6 units, all of one type.
C25_FormationSize ==
  LET es == hist.enemies
  IN hist.call = "formation" =>
       /\ Len(es) \in 3..6
       /\ \A i, j \in DOMAIN es : es[i].enemy_type = es[j].enemy_type

\* C26: a frame that follows a collision pass in which a shield_boost was
\* collected raises the shield energy by 50 points, capped at the maximum,
\* when the power-up effects are applied.
C26_ShieldBoostApplied ==
  (hist.op = "frame" /\ hist.boost_due)
  => hist.applied = Min(MAX_SHIELD_ENERGY, hist.before + SHIELD_BOOST_ENERGY)

\* C27: the wave preview emitted in the break before wave N announces a boss
\* exactly if N is a boss wave, N a multiple of WAVE_BOSS_FREQUENCY.
C27_PreviewAnnouncesNextWave ==
  \A k \in DOMAIN obs.notes :
    obs.notes[k] \in {"boss_incoming", "event_incoming", "elite_detected",
                      "advanced_hostiles", "incoming"}
    => (obs.notes[k] = "boss_incoming"
          <=> wm.current_wave_number % WAVE_BOSS_FREQUENCY = 0)

\* C28: the alive-set never holds more than 4 units marked is_minion,
\* however many spawners are iterated in a tick; a minion pass adds only
\* minions, at most one for each spawner older than 3.0 s whose roll
\* succeeded, and it ends: the entries it visits are those it found and at
\* most as many minions as the cap leaves room for.
C28_MinionsCapped ==
  LET ready == {k \in DOMAIN hist.before :
                  /\ hist.before[k].enemy_type = "spawner"
                  /\ hist.before[k].creation_time > MINION_WARMUP}
      minions(list) == Cardinality({k \in DOMAIN list : list[k].is_minion})
      added == Len(hist.passed) - Len(hist.before)
  IN /\ MinionCount(units, wm.enemies_alive) <= MINION_CAP
     /\ hist.op = "pass" =>
          /\ minions(hist.passed) <= MINION_CAP
          /\ added >= 0
          /\ added <= Cardinality(ready \cap hist.rolls)
          /\ added <= MINION_CAP - minions(hist.before)
          /\ \A k \in DOMAIN hist.before : hist.passed[k] = hist.before[k]
          /\ \A k \in DOMAIN hist.passed :
               k > Len(hist.before) =>
                 hist.passed[k].is_minion /\ hist.passed[k].enemy_type = "fast"

\* two spawners past their warm-up roll in one tick with three minions
\* alive: the pass adds one minion and stops at the cap
C28_Witness ==
  /\ hist.op = "pass"
  /\ Cardinality(hist.rolls) = 2
  /\ Cardinality({k \in DOMAIN hist.before : hist.before[k].is_minion}) = 3
  /\ Len(hist.passed) = Len(hist.before) + 1

\* C29: game-over is triggered only in a collision pass in which a
\* Player.take_damage call brings the health of a living player to 0 or
\* below, once in the pass even if a second lethal collision follows in it,
\* and once in a game; after game-over no frame changes the Director, the
\* units or the player: the only step left is the reset of the game.
C29_GameOverOnce ==
  [][/\ (gm'.game_over /\ ~gm.game_over) =>
          /\ pc = "collide"
          /\ obs'.game_overs = 1
          /\ player.health > 0
          /\ player.invulnerability_timer <= 0
          /\ player'.health <= 0
     /\ (obs'.game_overs > 0 /\ ~gm.game_over) => gm'.game_over
     /\ hist'.triggers <= 1
     /\ gm'.game_over <=> hist'.triggers = 1
     /\ gm.game_over =>
          /\ ~gm'.game_over
          /\ hist'.triggers = 0
          /\ wm' = StartPoint(1, 0, NoEvent)
          /\ units' = << >>
          /\ player' = PlayerInit]_vars

\* a pass ended the game with two units on the player: the first collision
\* was lethal and the second one found the player invulnerable
C29_Witness ==
  /\ gm.game_over
  /\ pc = "frame" /\ obs.game_overs = 1 /\ hist.triggers = 1
  /\ Cardinality({i \in DOMAIN units : ~units[i].active}) = 2

\* C30: a take_damage call on a unit whose shield is active with
\* shield_timer above 0 leaves its health unchanged, leaves it active and
\* returns false; and a unit whose shield is not active never has an active
\* shield again.
C30_ShieldHoldsThenStaysDown ==
  [][/\ (/\ hist'.op = "take_damage"
         /\ units[1].shield_active /\ units[1].shield_timer > 0)
        => /\ units'[1].health = units[1].health
           /\ units'[1].active
           /\ units'[1].reported = units[1].reported
           /\ ~hist'.result
     /\ ~units[1].shield_active => ~units'[1].shield_active]_vars

\* a hit on the raised shield of a shielded unit has exhausted it: the
\* shield is down, the unit unharmed
C30_Witness ==
  /\ hist.op = "take_damage"
  /\ hist.before.enemy_type = "shielded"
  /\ hist.before.shield_active /\ hist.before.shield_timer > 0
  /\ ~units[1].shield_active
  /\ units[1].health = hist.before.health

====
